---- MODULE Spec2Model ----
(***************************************************************************)
(* Model of the Playwright browser service: the BrowserManager of          *)
(* src/browser.py (engine lifecycle, URL allow-list, page_context) and the *)
(* request handlers of src/main.py.                                        *)
(*                                                                         *)
(* Everything runs on one asyncio event loop, so the code between two      *)
(* awaits is atomic: each action is one such stretch of a coroutine, from  *)
(* the completion of the await it was suspended in to its next await (or   *)
(* to its end).  The engine (Playwright) is outside the repository: every  *)
(* awaited engine call completes with an outcome chosen by \E.             *)
(***************************************************************************)
EXTENDS Integers, Sequences, FiniteSets, TLC

\* ---- bounds -------------------------------------------------------------
\* number of start()/stop() calls made on the manager in one behaviour
MaxCalls == 3
\* number of HTTP requests served in one behaviour
MaxReqs == 2

Life == {"l1", "l2"}          \* coroutines that call start()/stop()
App == "l1"                   \* the one that runs the startup/shutdown hooks
Req == {"r1", "r2"}           \* request coroutines running side by side

None == "None"

\* ---- hostnames and the allow-list (strings as sequences of characters) --
HostAB == <<"a", ".", "b">>               \* "a.b"
HostXb == <<"a", "b">>                    \* "ab"
HostUp == <<"A", ".", "B">>               \* "A.B"
NoHost == << >>                           \* urlparse(url).hostname is None
\* hostnames of request URLs (AnyHttpUrl always has a host)
Urls == {HostAB, HostXb}
WildB == <<"*", ".", "b">>                \* "*.b"
\* more hostnames and allow-list entries for calls of is_url_allowed
HostA == <<"a">>                          \* "a"
HostB == <<"b">>                          \* "b"
HostE == <<"e">>                          \* "e"
HostBa == <<"b", "a">>                    \* "ba"
EntA == <<"a">>                           \* "a"
EntUpA == <<"A">>                         \* "A"
EntB == <<"b">>                           \* "b"
WildUpB == <<"*", ".", "B">>              \* "*.B"
Entries == {EntA, EntUpA, EntB, WildB, WildUpB}
Hostnames == {NoHost, HostA, HostB, HostE, HostBa, HostXb, HostAB, HostUp}
DefaultBlockTypes == {"image", "media", "font"}

\* ---- API tokens and Authorization headers -------------------------------
TokenT == <<"t">>                         \* API_TOKEN=t
EmptyToken == << >>                       \* API_TOKEN= (set but empty)
NoHeader == << >>                         \* headers.get("authorization", "")
HdrGood == <<"B", "e", "a", "r", "e", "r", " ", "t">>             \* "Bearer t"
HdrLowerScheme == <<"b", "e", "a", "r", "e", "r", " ", "t">>      \* "bearer t"
HdrPadded == <<"B", "e", "a", "r", "e", "r", " ", " ", "t", " ">> \* "Bearer  t "
HdrWrong == <<"B", "e", "a", "r", "e", "r", " ", "x">>            \* "Bearer x"
HdrUpperTok == <<"B", "e", "a", "r", "e", "r", " ", "T">>         \* "Bearer T"
HdrEmptyTok == <<"B", "e", "a", "r", "e", "r", " ">>              \* "Bearer "
HdrBasic == <<"B", "a", "s", "i", "c", " ", "t">>                 \* "Basic t"
HdrBare == <<"t">>                                                \* "t"
Headers == {NoHeader, HdrGood, HdrLowerScheme, HdrPadded, HdrWrong,
            HdrUpperTok, HdrEmptyTok, HdrBasic, HdrBare}

VARIABLES
    browser,                \* self.browser: None or the Browser object
    playwright,             \* self._playwright: None or the driver object
    start_lock,             \* self._start_lock: None or the holder
    allowed_hosts,          \* self.allowed_hosts
    block_resource_types,   \* self.block_resource_types
    api_token,              \* main.API_TOKEN: None or the configured token
    checked,                \* the last is_url_allowed(url) call: << >> or <<hostname, result>>
    lpc,                    \* position of each start()/stop() caller
    calls,                  \* start()/stop() calls made so far
    lastDone,               \* the last completed start()/stop() call
    fails,                  \* some start()/stop() call has raised
    stops,                  \* some stop() call has been made
    overlap,                \* two start()/stop() calls were in flight together
    started,                \* some start() call has got past the lock
    waited,                 \* a stop() was called while a start() held the lock
    liveDrivers,            \* driver processes alive
    liveBrowsers,           \* browser processes alive
    served,                 \* requests received so far
    orphans,                \* live contexts of answered requests, no longer
                            \* referenced by any coroutine
    req                     \* the request coroutines

mgr == <<browser, playwright, start_lock>>
policy == <<allowed_hosts, block_resource_types, api_token, checked>>
lghost == <<calls, lastDone, fails, stops, overlap, started, waited>>
engine == <<liveDrivers, liveBrowsers>>
reqs == <<req, served, orphans>>
vars == <<browser, playwright, start_lock, allowed_hosts, block_resource_types,
          api_token, checked,
          lpc, calls, lastDone, fails, stops, overlap, started, waited,
          liveDrivers, liveBrowsers, served, orphans, req>>

\* ---- exceptions and the dispatcher's except chain -----------------------
Ok == "ok"
PlaywrightError == "PlaywrightError"
PlaywrightTimeoutError == "PlaywrightTimeoutError"
BrowserUnavailableError == "BrowserUnavailableError"
TypeError == "TypeError"
\* outcomes of an awaited engine call made on behalf of a request
Outcomes == {Ok, PlaywrightError, PlaywrightTimeoutError}

\* the classes an exception is an instance of
Bases(e) ==
    IF e = PlaywrightTimeoutError THEN {PlaywrightTimeoutError, PlaywrightError, "Exception"}
    ELSE IF e = BrowserUnavailableError THEN {BrowserUnavailableError, "RuntimeError", "Exception"}
    ELSE {e, "Exception"}

ExceptChainSwapped(e) ==
    IF PlaywrightError \in Bases(e) THEN 502
    ELSE IF PlaywrightTimeoutError \in Bases(e) THEN 504
    ELSE IF BrowserUnavailableError \in Bases(e) THEN 503
    ELSE 500

\* except PlaywrightTimeoutError / PlaywrightError / BrowserUnavailableError / Exception
ExceptChain(e) ==
    IF PlaywrightTimeoutError \in Bases(e) THEN 504
    ELSE IF PlaywrightError \in Bases(e) THEN 502
    ELSE IF BrowserUnavailableError \in Bases(e) THEN 503
    ELSE 500

\* ---- BrowserManager.is_ready / is_url_allowed ---------------------------
is_ready == browser # None

Lower(c) == IF c = "A" THEN "a" ELSE IF c = "B" THEN "b"
            ELSE IF c = "T" THEN "t" ELSE c
lower(s) == [i \in 1..Len(s) |-> Lower(s[i])]
startswith(s, p) == Len(s) >= Len(p) /\ SubSeq(s, 1, Len(p)) = p
endswith(s, p) == Len(s) >= Len(p) /\ SubSeq(s, Len(s) - Len(p) + 1, Len(s)) = p

EntryMatchesNoDot(hostname, e) ==
    LET entry == lower(e) IN
    IF startswith(entry, <<"*", ".">>)
    THEN hostname = SubSeq(entry, 3, Len(entry))
         \/ endswith(hostname, SubSeq(entry, 3, Len(entry)))
    ELSE hostname = entry

EntryMatches(hostname, e) ==
    LET entry == lower(e) IN
    IF startswith(entry, <<"*", ".">>)
    THEN hostname = SubSeq(entry, 3, Len(entry))
         \/ endswith(hostname, <<".">> \o SubSeq(entry, 3, Len(entry)))
    ELSE hostname = entry

is_url_allowed(hostname) ==
    IF allowed_hosts = {} THEN TRUE
    ELSE IF hostname = NoHost THEN FALSE
    ELSE \E entry \in allowed_hosts : EntryMatches(lower(hostname), entry)

\* a call of is_url_allowed on a URL with the given hostname
CheckUrl(hostname) ==
    /\ checked' = <<hostname, is_url_allowed(hostname)>>
    /\ UNCHANGED <<mgr, allowed_hosts, block_resource_types, api_token,
                   lpc, lghost, engine, reqs>>

\* ---- main.verify_token ---------------------------------------------------
\* s.split(" ", 1)[1]: what follows the first space of s
AfterFirstSpace(s) ==
    LET i == CHOOSE i \in 1..Len(s) :
                 s[i] = " " /\ \A j \in 1..(i - 1) : s[j] # " "
    IN SubSeq(s, i + 1, Len(s))

\* s.strip()
strip(s) ==
    LET ns == {i \in 1..Len(s) : s[i] # " "} IN
    IF ns = {} THEN << >>
    ELSE SubSeq(s, CHOOSE i \in ns : \A j \in ns : i <= j,
                   CHOOSE i \in ns : \A j \in ns : i >= j)

verify_tokenAnyBearer(auth) ==
    IF api_token = None \/ api_token = EmptyToken THEN 0
    ELSE IF ~startswith(lower(auth), <<"b", "e", "a", "r", "e", "r", " ">>) THEN 401
    ELSE 0

\* the status verify_token raises for the Authorization header `auth`,
\* 0 when it returns
verify_token(auth) ==
    IF api_token = None \/ api_token = EmptyToken THEN 0
    ELSE IF ~startswith(lower(auth), <<"b", "e", "a", "r", "e", "r", " ">>) THEN 401
    ELSE IF strip(AfterFirstSpace(auth)) # api_token THEN 403
    ELSE 0

\* ---- request records ----------------------------------------------------
Kinds == {"screenshot", "navigate", "execute"}

IdleReq == [pc |-> "idle", kind |-> "screenshot", url |-> NoHost, ready |-> FALSE,
            alive |-> FALSE, ctx |-> "none", yielded |-> FALSE, block |-> "none",
            navTimeout |-> FALSE, engineErr |-> FALSE, closeRes |-> "none",
            closes |-> 0, todo |-> 0, exc |-> "none", hdr |-> NoHeader,
            authed |-> FALSE, status |-> 0]

\* the service after construction, with API_TOKEN one of `tokens`,
\* ALLOWED_HOSTS one of `allowSets` and the blocked types one of `blockSets`
InitWith(tokens, allowSets, blockSets) ==
    /\ browser = None
    /\ playwright = None
    /\ start_lock = None
    /\ allowed_hosts \in allowSets
    /\ block_resource_types \in blockSets
    /\ api_token \in tokens
    /\ checked = << >>
    /\ lpc = [l \in Life |-> "idle"]
    /\ calls = 0
    /\ lastDone = "none"
    /\ fails = FALSE
    /\ stops = FALSE
    /\ overlap = FALSE
    /\ started = FALSE
    /\ waited = FALSE
    /\ liveDrivers = 0
    /\ liveBrowsers = 0
    /\ served = 0
    /\ orphans = 0
    /\ req = [r \in Req |-> IdleReq]

\* no API token, ALLOWED_HOSTS=*.b
Init == InitWith({None}, {{WildB}}, { {}, DefaultBlockTypes })
\* the token unset, empty or "t"; BLOCK_RESOURCES=true
InitAuth == InitWith({None, EmptyToken, TokenT}, {{WildB}}, {DefaultBlockTypes})

\* ---- BrowserManager.start / stop ----------------------------------------
OthersInFlight(l) == \E o \in Life \ {l} : lpc[o] # "idle"

\* another coroutine is inside start(), holding the lock
StartHoldsLock(l) == \E o \in Life \ {l} : lpc[o] \in {"start_driver", "start_launch"}

LockAlwaysFree(lock) == TRUE

\* `async with self._start_lock`: the lock is taken only when nobody holds it
LockFree(lock) == lock = None

\* a call returns or raises: the lock (if held) is released by `async with`
Finish(l, what) ==
    /\ lpc' = [lpc EXCEPT ![l] = "idle"]
    /\ start_lock' = None
    /\ lastDone' = what
    /\ fails' = (fails \/ what \in {"start_fail", "stop_fail"})

StartSkipsNever(b) == FALSE

\* start(): `if self.browser is not None: return`
StartSkips(b) == b # None

StopClosesAlways(b) == TRUE

\* stop(): `if self.browser:`
StopClosesBrowser(b) == b # None

KeptHandle(b) == b

\* stop(): `self.browser = None` after the close
ClearedHandle(b) == None

\* a coroutine calls start() and reaches `async with self._start_lock`
StartCall(l) ==
    /\ lpc[l] = "idle"
    /\ calls < MaxCalls
    /\ lpc' = [lpc EXCEPT ![l] = "start_wait"]
    /\ calls' = calls + 1
    /\ overlap' = (overlap \/ OthersInFlight(l))
    /\ UNCHANGED <<mgr, policy, lastDone, fails, stops, started, waited, engine, reqs>>

\* start() gets the lock, checks the handle and either returns or awaits
\* async_playwright().start()
StartAcquire(l) ==
    /\ lpc[l] = "start_wait"
    /\ LockFree(start_lock)
    /\ IF StartSkips(browser)
       THEN Finish(l, "start_ok")
       ELSE /\ start_lock' = l
            /\ lpc' = [lpc EXCEPT ![l] = "start_driver"]
            /\ UNCHANGED <<lastDone, fails>>
    /\ started' = TRUE
    /\ UNCHANGED <<browser, playwright, policy, calls, stops, overlap, waited,
                   liveDrivers, liveBrowsers, reqs>>

\* async_playwright().start() completes; on success the driver is stored and
\* chromium.launch() is awaited
StartDriverDone(l, ok) ==
    /\ lpc[l] = "start_driver"
    /\ IF ok
       THEN /\ playwright' = "Playwright"
            /\ liveDrivers' = liveDrivers + 1
            /\ lpc' = [lpc EXCEPT ![l] = "start_launch"]
            /\ UNCHANGED <<start_lock, lastDone, fails>>
       ELSE /\ Finish(l, "start_fail")
            /\ UNCHANGED <<playwright, liveDrivers>>
    /\ UNCHANGED <<browser, policy, calls, stops, overlap, started, waited,
                   liveBrowsers, reqs>>

\* chromium.launch() completes; on success the handle is stored
StartLaunchDone(l, ok) ==
    /\ lpc[l] = "start_launch"
    /\ IF ok
       THEN /\ browser' = "Browser"
            /\ liveBrowsers' = liveBrowsers + 1
            /\ Finish(l, "start_ok")
       ELSE /\ Finish(l, "start_fail")
            /\ UNCHANGED <<browser, liveBrowsers>>
    /\ UNCHANGED <<playwright, policy, calls, stops, overlap, started, waited,
                   liveDrivers, reqs>>

\* a coroutine calls stop() and reaches `async with self._start_lock`
StopCall(l) ==
    /\ lpc[l] = "idle"
    /\ calls < MaxCalls
    /\ lpc' = [lpc EXCEPT ![l] = "stop_wait"]
    /\ calls' = calls + 1
    /\ stops' = TRUE
    /\ overlap' = (overlap \/ OthersInFlight(l))
    /\ waited' = (waited \/ StartHoldsLock(l))
    /\ UNCHANGED <<mgr, policy, lastDone, fails, started, engine, reqs>>

\* stop() gets the lock and runs to its first await (browser.close(), or the
\* driver's stop() when there is no browser), or to its end
StopAcquire(l) ==
    /\ lpc[l] = "stop_wait"
    /\ LockFree(start_lock)
    /\ IF StopClosesBrowser(browser)
       THEN /\ start_lock' = l
            /\ lpc' = [lpc EXCEPT ![l] = "stop_close"]
            /\ UNCHANGED <<lastDone, fails>>
       ELSE IF playwright # None
       THEN /\ start_lock' = l
            /\ lpc' = [lpc EXCEPT ![l] = "stop_driver"]
            /\ UNCHANGED <<lastDone, fails>>
       ELSE Finish(l, "stop_ok")
    /\ UNCHANGED <<browser, playwright, policy, calls, stops, overlap, started, waited,
                   liveDrivers, liveBrowsers, reqs>>

\* browser.close() completes: the browser process and all its contexts are
\* gone, the handle is cleared and the driver's stop() is awaited; if it
\* raises, the exception leaves stop() through `async with`
StopCloseDone(l, ok) ==
    /\ lpc[l] = "stop_close"
    /\ IF ok
       THEN /\ liveBrowsers' = 0
            /\ req' = [r \in Req |-> [req[r] EXCEPT !.alive = FALSE]]
            /\ orphans' = 0
            /\ browser' = ClearedHandle(browser)
            /\ IF playwright # None
               THEN /\ lpc' = [lpc EXCEPT ![l] = "stop_driver"]
                    /\ UNCHANGED <<start_lock, lastDone, fails>>
               ELSE Finish(l, "stop_ok")
       ELSE /\ Finish(l, "stop_fail")
            /\ UNCHANGED <<browser, liveBrowsers, req, orphans>>
    /\ UNCHANGED <<playwright, policy, calls, stops, overlap, started, waited,
                   liveDrivers, served>>

\* self._playwright.stop() completes
StopDriverDone(l, ok) ==
    /\ lpc[l] = "stop_driver"
    /\ IF ok
       THEN /\ playwright' = None
            /\ liveDrivers' = IF liveDrivers > 0 THEN liveDrivers - 1 ELSE 0
            /\ Finish(l, "stop_ok")
       ELSE /\ Finish(l, "stop_fail")
            /\ UNCHANGED <<playwright, liveDrivers>>
    /\ UNCHANGED <<browser, policy, calls, stops, overlap, started, waited,
                   liveBrowsers, reqs>>

\* ---- BrowserManager.page_context and the request handlers ---------------
\* page_context(self, *, width: int, height: int): keyword-only, no defaults
RequiredArgs == {"width", "height"}

\* screenshot passes width= and height=; navigate and execute call
\* browser_manager.page_context() with no arguments
SuppliedArgs(kind) == IF kind = "screenshot" THEN {"width", "height"} ELSE {}

\* the call binds its arguments, or raises TypeError inside the handler's try
BindOK(kind) == RequiredArgs \subseteq SuppliedArgs(kind)

EnsureUrlSkipped(u) == TRUE

\* _ensure_url_allowed(url) passes (does not raise 403)
EnsureUrlAllowed(u) == is_url_allowed(u)

ClosesOnSuccessOnly(block) == block = Ok

\* try: yield page / finally: await context.close() -- the close runs
\* whatever the outcome of the caller's block
ClosesOnExit(block) == TRUE

\* the outcome that leaves `async with page_context(...)`: an exception
\* raised by context.close() in the finally replaces the block's own outcome
Propagated(block, closeRes) == IF closeRes # Ok THEN closeRes ELSE block

\* engine awaits in the handler's block after page.goto(): screenshot();
\* title() and content(); evaluate()
ActionSteps(kind) == IF kind = "navigate" THEN 2 ELSE 1

\* the status of the response for the outcome of the try block
StatusOf(outcome) == IF outcome = Ok THEN 200 ELSE ExceptChain(outcome)

RequestWaitsWhileLocked(lock) == lock # None

\* the handlers, is_ready() and page_context never touch self._start_lock:
\* no step of a request waits for it
RequestWaitsForLock(lock) == FALSE

\* an engine call on a browser process that is gone cannot succeed
EngineOutcomes(r) == IF req[r].alive THEN Outcomes ELSE {PlaywrightError}

Set(r, rec) == req' = [req EXCEPT ![r] = rec]
\* the response is sent; `alive` is kept only for a context left behind
Respond(rec, st) == [rec EXCEPT !.pc = "done", !.status = st,
                                !.alive = (@ /\ rec.ctx = "live")]
\* exception e leaves page_context and is mapped by the handler's except chain
Caught(rec, e) == Respond([rec EXCEPT !.exc = e], ExceptChain(e))
\* the try block ends with outcome o
Mapped(rec, o) == IF o = Ok THEN Respond(rec, StatusOf(o)) ELSE Caught(rec, o)
Failed(rec, o) == Caught([rec EXCEPT !.engineErr = TRUE], o)

PageContextNeverRefuses(b) == FALSE

\* page_context: `if not self.browser: raise BrowserUnavailableError`
PageContextRefuses(b) == b = None

\* a POST request with Authorization header h, from the verify_token
\* dependency through the handler's first line to its first await
\* (new_context), or to the error response: verify_token, _require_browser,
\* _ensure_url_allowed, the call of page_context and the readiness check at
\* the top of page_context
ReqBegin(r, k, u, h) ==
    /\ req[r].pc \in {"idle", "done"}
    /\ ~RequestWaitsForLock(start_lock)
    /\ r = "r2" => req["r1"].pc # "idle"          \* r1 takes the first request
    /\ served < MaxReqs
    /\ served' = served + 1
    /\ orphans' = IF req[r].ctx = "live" /\ req[r].alive THEN orphans + 1 ELSE orphans
    /\ LET rej == [IdleReq EXCEPT !.kind = k, !.url = u, !.hdr = h,
                                  !.ready = is_ready]
           rec == [rej EXCEPT !.authed = TRUE] IN
       IF verify_token(h) # 0 THEN Set(r, Respond(rej, verify_token(h)))
       ELSE IF ~is_ready THEN Set(r, Respond(rec, 503))
       ELSE IF ~EnsureUrlAllowed(u) THEN Set(r, Respond(rec, 403))
       ELSE IF ~BindOK(k) THEN Set(r, Caught(rec, TypeError))
       ELSE IF PageContextRefuses(browser)
       THEN Set(r, Caught(rec, BrowserUnavailableError))
       ELSE Set(r, [rec EXCEPT !.pc = "new_context", !.alive = liveBrowsers > 0])
    /\ UNCHANGED <<mgr, policy, lpc, lghost, engine>>

\* a coroutine enters `async with manager.page_context(width=.., height=..)`
\* itself, as the handlers do but without their checks: page_context runs
\* from its first line to its first await, or raises
CtxEnter(r) ==
    /\ req[r].pc \in {"idle", "done"}
    /\ ~RequestWaitsForLock(start_lock)
    /\ r = "r2" => req["r1"].pc # "idle"
    /\ served < MaxReqs
    /\ served' = served + 1
    /\ orphans' = IF req[r].ctx = "live" /\ req[r].alive THEN orphans + 1 ELSE orphans
    /\ LET rec == [IdleReq EXCEPT !.kind = "direct", !.ready = is_ready] IN
       IF PageContextRefuses(browser)
       THEN Set(r, Caught(rec, BrowserUnavailableError))
       ELSE Set(r, [rec EXCEPT !.pc = "new_context", !.alive = liveBrowsers > 0])
    /\ UNCHANGED <<mgr, policy, lpc, lghost, engine>>

\* browser.new_context() completes
ReqNewContextDone(r, o) ==
    /\ req[r].pc = "new_context"
    /\ ~RequestWaitsForLock(start_lock)
    /\ o \in EngineOutcomes(r)
    /\ IF o = Ok
       THEN Set(r, [req[r] EXCEPT !.ctx = "live",
                       !.pc = IF block_resource_types # {} THEN "route" ELSE "new_page"])
       ELSE Set(r, Failed(req[r], o))
    /\ UNCHANGED <<mgr, policy, lpc, lghost, engine, served, orphans>>

\* context.route("**/*", route_handler) completes
ReqRouteDone(r, o) ==
    /\ req[r].pc = "route"
    /\ ~RequestWaitsForLock(start_lock)
    /\ o \in EngineOutcomes(r)
    /\ IF o = Ok
       THEN Set(r, [req[r] EXCEPT !.pc = "new_page"])
       ELSE Set(r, Failed(req[r], o))
    /\ UNCHANGED <<mgr, policy, lpc, lghost, engine, served, orphans>>

\* context.new_page() completes; the page is yielded and the handler's block
\* awaits page.goto()
ReqNewPageDone(r, o) ==
    /\ req[r].pc = "new_page"
    /\ ~RequestWaitsForLock(start_lock)
    /\ o \in EngineOutcomes(r)
    /\ IF o = Ok
       THEN Set(r, [req[r] EXCEPT !.yielded = TRUE, !.pc = "goto"])
       ELSE Set(r, Failed(req[r], o))
    /\ UNCHANGED <<mgr, policy, lpc, lghost, engine, served, orphans>>

\* the block ends with outcome o: the finally awaits context.close()
ExitBlock(rec, o) ==
    LET out == [rec EXCEPT !.block = o, !.engineErr = (@ \/ o # Ok)] IN
    IF ClosesOnExit(o) THEN [out EXCEPT !.pc = "close"]
    ELSE Mapped(out, o)

\* page.goto() completes
ReqGotoDone(r, o) ==
    /\ req[r].pc = "goto"
    /\ ~RequestWaitsForLock(start_lock)
    /\ o \in EngineOutcomes(r)
    /\ IF o = Ok
       THEN Set(r, [req[r] EXCEPT !.pc = "action", !.todo = ActionSteps(req[r].kind)])
       ELSE Set(r, ExitBlock([req[r] EXCEPT !.navTimeout = (o = PlaywrightTimeoutError)], o))
    /\ UNCHANGED <<mgr, policy, lpc, lghost, engine, served, orphans>>

\* the engine action after the navigation completes
ReqActionDone(r, o) ==
    /\ req[r].pc = "action"
    /\ ~RequestWaitsForLock(start_lock)
    /\ o \in EngineOutcomes(r)
    /\ IF o = Ok /\ req[r].todo > 1
       THEN Set(r, [req[r] EXCEPT !.todo = @ - 1])
       ELSE Set(r, ExitBlock([req[r] EXCEPT !.todo = 0], o))
    /\ UNCHANGED <<mgr, policy, lpc, lghost, engine, served, orphans>>

\* context.close() completes; the handler maps what leaves the `async with`
ReqCloseDone(r, o) ==
    /\ req[r].pc = "close"
    /\ ~RequestWaitsForLock(start_lock)
    /\ o \in Outcomes
    /\ Set(r, Mapped([req[r] EXCEPT !.ctx = "closed", !.closes = @ + 1,
                                     !.closeRes = o],
                     Propagated(req[r].block, o)))
    /\ UNCHANGED <<mgr, policy, lpc, lghost, engine, served, orphans>>

\* start() called by coroutine l
Startup(l) ==
    \/ StartCall(l)
    \/ StartAcquire(l)
    \/ \E ok \in BOOLEAN : StartDriverDone(l, ok)
    \/ \E ok \in BOOLEAN : StartLaunchDone(l, ok)

\* start()/stop() called by coroutine l
Lifecycle(l) ==
    \/ StartCall(l)
    \/ StartAcquire(l)
    \/ \E ok \in BOOLEAN : StartDriverDone(l, ok)
    \/ \E ok \in BOOLEAN : StartLaunchDone(l, ok)
    \/ StopCall(l)
    \/ StopAcquire(l)
    \/ \E ok \in BOOLEAN : StopCloseDone(l, ok)
    \/ \E ok \in BOOLEAN : StopDriverDone(l, ok)

\* the steps of a request after its first
Serve(r) ==
    \/ \E o \in Outcomes : ReqNewContextDone(r, o)
    \/ \E o \in Outcomes : ReqRouteDone(r, o)
    \/ \E o \in Outcomes : ReqNewPageDone(r, o)
    \/ \E o \in Outcomes : ReqGotoDone(r, o)
    \/ \E o \in Outcomes : ReqActionDone(r, o)
    \/ \E o \in Outcomes : ReqCloseDone(r, o)

\* a request with any of the Authorization headers
RequestAuth(r) ==
    \/ \E k \in Kinds, u \in Urls, h \in Headers : ReqBegin(r, k, u, h)
    \/ Serve(r)

\* a request handler runs (no token is configured: the header is not read)
Request(r) ==
    \/ \E k \in Kinds, u \in Urls : ReqBegin(r, k, u, NoHeader)
    \/ \E o \in Outcomes : ReqNewContextDone(r, o)
    \/ \E o \in Outcomes : ReqRouteDone(r, o)
    \/ \E o \in Outcomes : ReqNewPageDone(r, o)
    \/ \E o \in Outcomes : ReqGotoDone(r, o)
    \/ \E o \in Outcomes : ReqActionDone(r, o)
    \/ \E o \in Outcomes : ReqCloseDone(r, o)

\* a coroutine uses page_context directly
Direct(r) ==
    \/ CtxEnter(r)
    \/ \E o \in Outcomes : ReqNewContextDone(r, o)
    \/ \E o \in Outcomes : ReqRouteDone(r, o)
    \/ \E o \in Outcomes : ReqNewPageDone(r, o)
    \/ \E o \in Outcomes : ReqGotoDone(r, o)
    \/ \E o \in Outcomes : ReqActionDone(r, o)
    \/ \E o \in Outcomes : ReqCloseDone(r, o)

\* the service: the application's coroutine starts and stops the manager
\* while requests are served
Next ==
    \/ Lifecycle(App)
    \/ \E r \in Req : Request(r)

Spec == Init /\ [][Next]_vars

\* the manager alone: start() and stop() called from concurrent coroutines
NextLife == \E l \in Life : Lifecycle(l)

SpecLife == Init /\ [][NextLife]_vars

\* the manager with callers of page_context that make no readiness check
NextCtx ==
    \/ Lifecycle(App)
    \/ \E r \in Req : Direct(r)

SpecCtx == Init /\ [][NextCtx]_vars

\* the service from its startup hook on, with a token that may be
\* configured, serving one request at a time
NextAuth ==
    \/ Startup(App)
    \/ RequestAuth("r1")

SpecAuth == InitAuth /\ [][NextAuth]_vars

\* is_url_allowed called on managers built with any set of the entries
InitUrl == InitWith({None}, SUBSET Entries, { {}, DefaultBlockTypes })
NextUrl == \E hostname \in Hostnames : CheckUrl(hostname)
SpecUrl == InitUrl /\ [][NextUrl]_vars

TypeOK ==
    /\ browser \in {None, "Browser"}
    /\ playwright \in {None, "Playwright"}
    /\ start_lock \in Life \cup {None}
    /\ \A r \in Req : req[r].pc \in {"idle", "new_context", "route", "new_page",
                                      "goto", "action", "close", "done"}

\* ==== the claims =========================================================
Quiet == \A l \in Life : lpc[l] = "idle"
InFlight(r) == req[r].pc \notin {"idle", "done"}
Answered(r) == req[r].pc = "done"

\* C1: when only start() calls have been made and the engine launches without
\* a fault, at most one driver and one browser process exist at any time, and
\* once two or more start() calls have completed exactly one browser process
\* exists and the manager is running (no call raised).
C1_ConcurrentStartLaunchesOnce ==
    (~stops /\ ~fails) =>
        /\ liveBrowsers <= 1
        /\ liveDrivers <= 1
        /\ (calls >= 2 /\ Quiet) =>
              (liveBrowsers = 1 /\ liveDrivers = 1 /\ is_ready /\ lastDone = "start_ok")

\* two start() calls that were in flight together have both returned
C1_Witness ==
    /\ calls = 2 /\ ~stops /\ ~fails /\ overlap /\ Quiet
    /\ liveBrowsers = 1 /\ is_ready

\* C2: a context that page_context yielded is live and unclosed while the
\* caller's block runs, and once the request is answered context.close() has
\* been called on it exactly once and it is no longer live, whatever the
\* outcome of the block (normal, error, timeout).
C2_YieldedContextClosedOnce ==
    \A r \in Req : req[r].yielded =>
        /\ req[r].pc \in {"goto", "action", "close", "done"}
        /\ req[r].pc \in {"goto", "action", "close"} => (req[r].closes = 0 /\ req[r].ctx = "live")
        /\ Answered(r) => (req[r].closes = 1 /\ req[r].ctx = "closed")

\* a request whose block failed with a timeout has been answered
C2_Witness ==
    \E r \in Req : /\ Answered(r) /\ req[r].yielded
                   /\ req[r].block = PlaywrightTimeoutError
                   /\ req[r].closes = 1 /\ req[r].ctx = "closed"

\* C3: no answered request leaves behind a context that is still live in the
\* engine.
C3_NoContextLeftBehind ==
    /\ orphans = 0
    /\ \A r \in Req : Answered(r) => ~(req[r].ctx = "live" /\ req[r].alive)

\* C4: a context held by a request in flight exists only while the manager's
\* handle is set.
C4_NoContextOutlivesHandle ==
    \A r \in Req : (InFlight(r) /\ req[r].ctx = "live") => is_ready

\* C5: the response of a request whose block ran is the one of the block's
\* own outcome, whatever context.close() did.
C5_CloseFailureSwallowed ==
    \A r \in Req : (Answered(r) /\ req[r].yielded) => req[r].status = StatusOf(req[r].block)

\* C6: a request whose URL is_url_allowed rejects is answered (403, or 503
\* when the engine is not ready) without a context or any engine call.
C6_RejectedUrlTouchesNoEngine ==
    \A r \in Req : (req[r].pc # "idle" /\ ~is_url_allowed(req[r].url)) =>
        /\ Answered(r)
        /\ req[r].ctx = "none"
        /\ ~req[r].yielded /\ ~req[r].engineErr
        /\ req[r].status = (IF req[r].ready THEN 403 ELSE 503)

\* a disallowed URL was rejected while the engine was running
C6_Witness ==
    \E r \in Req : /\ Answered(r) /\ req[r].ready /\ ~is_url_allowed(req[r].url)
                   /\ req[r].status = 403 /\ req[r].ctx = "none"

\* C7: a navigate or execute request made while the engine is running, for
\* an allowed URL and with no engine call failing, is answered with success.
C7_NavigateExecuteSucceed ==
    \A r \in Req : ( /\ Answered(r) /\ req[r].kind \in {"navigate", "execute"}
                     /\ req[r].ready /\ is_url_allowed(req[r].url)
                     /\ ~req[r].engineErr ) => req[r].status = 200

\* C8: a request whose navigation timed out is answered 504 with its context
\* closed and the manager still running unless stop() was called; and beside
\* an answered request that timed out, any other request with an allowed
\* URL, a ready engine and no engine failure of its own is answered with
\* success.
C8_TimeoutIsContained ==
    \A r \in Req : (Answered(r) /\ req[r].navTimeout) =>
        /\ req[r].status = 504
        /\ req[r].ctx = "closed"
        /\ stops \/ is_ready
        /\ \A q \in Req \ {r} :
              ( /\ Answered(q) /\ req[q].ready /\ is_url_allowed(req[q].url)
                /\ ~req[q].engineErr ) => req[q].status = 200

\* C9: while no start()/stop() call is running and none has raised, is_ready()
\* is true exactly when the last completed call was start().
C9_ReadyFollowsLastCall ==
    (start_lock = None /\ ~fails) => (is_ready <=> lastDone = "start_ok")

\* start() then stop() have completed
C9_Witness ==
    /\ Quiet /\ ~fails /\ started /\ lastDone = "stop_ok" /\ ~is_ready

\* the manager was never started, or the last completed call was a stop()
StoppedManager == ~is_ready /\ (~started \/ lastDone = "stop_ok")

\* C10: stop() on a manager that was never started or is already stopped
\* returns at once without raising: it awaits no engine close and leaves the
\* handles, the lock and the engine processes as they were.
C10_StopWhenStoppedIsNoOp ==
    [][\A l \in Life :
          (lpc[l] = "stop_wait" /\ lpc'[l] # "stop_wait" /\ StoppedManager) =>
             /\ lpc'[l] = "idle"
             /\ lastDone' = "stop_ok"
             /\ fails' = fails
             /\ browser' = None /\ playwright' = playwright
             /\ start_lock' = start_lock
             /\ liveDrivers' = liveDrivers /\ liveBrowsers' = liveBrowsers]_vars

\* a stop() has returned on a manager that was never started
C10_Witness ==
    /\ lastDone = "stop_ok" /\ ~started /\ ~fails /\ ~is_ready /\ playwright = None

\* what is left of C8 beside the propagating close failure and the missing
\* viewport arguments: the timeout is answered 504 when context.close()
\* succeeds, and a screenshot request with no engine failure succeeds when
\* its context.close() succeeds
TimeoutContainedForScreenshots ==
    \A r \in Req : Answered(r) =>
        /\ (req[r].navTimeout /\ req[r].closeRes = Ok) =>
              (req[r].status = 504 /\ req[r].ctx = "closed" /\ (stops \/ is_ready))
        /\ ( /\ req[r].kind = "screenshot" /\ req[r].ready
             /\ is_url_allowed(req[r].url) /\ ~req[r].engineErr
             /\ req[r].closeRes = Ok ) => req[r].status = 200

\* coroutine l is inside start() or stop(), awaiting an engine launch or close
Working(l) == lpc[l] \in {"start_driver", "start_launch", "stop_close", "stop_driver"}

\* C11: at most one coroutine is inside the launch/close steps of start() or
\* stop() at any time, and it is the holder of the lock.
C11_StartStopMutuallyExclusive ==
    /\ Cardinality({l \in Life : Working(l)}) <= 1
    /\ \A l \in Life : Working(l) => start_lock = l

\* a stop() is closing the browser while a start() call waits for the lock
C11_Witness ==
    \E l \in Life, o \in Life :
        l # o /\ lpc[l] = "stop_close" /\ start_lock = l /\ lpc[o] = "start_wait"

\* C12: at most one driver process and one browser process are alive, and
\* none is alive that the manager holds no reference to.
C12_AtMostOneEngineInstance ==
    /\ liveDrivers <= 1
    /\ liveBrowsers <= 1
    /\ playwright = None => liveDrivers = 0
    /\ browser = None => liveBrowsers = 0

\* C13: after exactly one start() and one stop(), the stop() called while the
\* start() held the lock, and no engine fault, once both have returned the
\* manager is stopped, no driver or browser process is alive and no call
\* raised; until then the stop() has not run ahead of the start().
C13_StopDuringStartStopsEngine ==
    (calls = 2 /\ waited /\ ~fails) =>
        /\ (\E l \in Life : lpc[l] \in {"start_driver", "start_launch"}) =>
              (\E o \in Life : lpc[o] = "stop_wait")
        /\ Quiet => ( /\ ~is_ready /\ playwright = None
                      /\ liveBrowsers = 0 /\ liveDrivers = 0
                      /\ lastDone = "stop_ok" )

\* both calls have returned
C13_Witness ==
    /\ calls = 2 /\ waited /\ ~fails /\ Quiet /\ started
    /\ lastDone = "stop_ok" /\ ~is_ready /\ liveBrowsers = 0 /\ liveDrivers = 0

\* C14: a request in flight always has an enabled next step, whoever holds the
\* start/stop lock: no request step waits for the lock.
C14_RequestsNeverWaitForLock ==
    \A r \in Req : InFlight(r) => ENABLED Request(r)

\* two requests hold live contexts at once while stop() holds the lock
C14_Witness ==
    /\ start_lock # None
    /\ \A r \in Req : InFlight(r) /\ req[r].ctx = "live" /\ req[r].alive

\* C15: page_context entered while the manager is not ready raises
\* BrowserUnavailableError at once: no context, no page, no engine call, and
\* the manager and the engine processes are as they were.
C15_PageContextRefusesWhenNotReady ==
    [][\A r \in Req :
          (served' = served + 1 /\ req'[r] # req[r] /\ ~is_ready) =>
             /\ req'[r].pc = "done"
             /\ req'[r].exc = BrowserUnavailableError
             /\ req'[r].ctx = "none" /\ ~req'[r].yielded /\ ~req'[r].alive
             /\ UNCHANGED <<browser, playwright, start_lock, liveDrivers, liveBrowsers>>]_vars

\* a direct caller was refused
C15_Witness ==
    \E r \in Req : /\ Answered(r) /\ req[r].kind = "direct" /\ ~req[r].ready
                   /\ req[r].exc = BrowserUnavailableError /\ req[r].ctx = "none"

\* the status the error taxonomy gives a failure kind
TaxonomyStatus(failure) ==
    CASE failure = "none" -> 200
      [] failure = PlaywrightTimeoutError -> 504
      [] failure = PlaywrightError -> 502
      [] failure = BrowserUnavailableError -> 503
      [] OTHER -> 500

\* C16: an answered request has the one status of its failure kind: 503 when
\* the engine was not ready, else 403 when the URL is not allowed, else 504
\* for a timeout (never 502), 502 for another engine error, 500 for any other
\* exception of the try block, and success when nothing failed.
C16_FailureKindDecidesStatus ==
    \A r \in Req : Answered(r) =>
        /\ req[r].status = (IF ~req[r].ready THEN 503
                            ELSE IF ~is_url_allowed(req[r].url) THEN 403
                            ELSE TaxonomyStatus(req[r].exc))
        /\ req[r].exc = PlaywrightTimeoutError => req[r].status # 502

\* a request that timed out was answered 504
C16_Witness ==
    \E r \in Req : /\ Answered(r) /\ req[r].ready /\ is_url_allowed(req[r].url)
                   /\ req[r].exc = PlaywrightTimeoutError /\ req[r].status = 504

Configured == api_token # None /\ api_token # EmptyToken
MissingBearer == {NoHeader, HdrBasic, HdrBare}
WrongBearer == {HdrWrong, HdrUpperTok, HdrEmptyTok}
RightBearer == {HdrGood, HdrLowerScheme, HdrPadded}
NoEngineWork(r) ==
    /\ req[r].ctx = "none" /\ ~req[r].yielded /\ ~req[r].engineErr
    /\ req[r].exc = "none" /\ req[r].closes = 0

\* C17: with a token configured, a request without a bearer header is
\* answered 401 and one with a different bearer token 403, both without any
\* engine work; a request with the matching token, or any request when no
\* token is configured, proceeds to the handler (its status is then the
\* handler's: never 401, and 403 only for a URL that is not allowed).
C17_TokenGuardsEveryRequest ==
    \A r \in Req :
        /\ (Answered(r) /\ Configured /\ req[r].hdr \in MissingBearer) =>
              (req[r].status = 401 /\ ~req[r].authed /\ NoEngineWork(r))
        /\ (Answered(r) /\ Configured /\ req[r].hdr \in WrongBearer) =>
              (req[r].status = 403 /\ ~req[r].authed /\ NoEngineWork(r))
        /\ (Answered(r) /\ (~Configured \/ req[r].hdr \in RightBearer)) =>
              /\ req[r].authed
              /\ req[r].status # 401
              /\ req[r].status = 403 => (req[r].ready /\ ~is_url_allowed(req[r].url))
        /\ InFlight(r) => (req[r].authed /\ (~Configured \/ req[r].hdr \in RightBearer))

\* a request with a wrong token was answered 403 by the token check
C17_Witness ==
    \E r \in Req : /\ Answered(r) /\ Configured /\ req[r].hdr = HdrWrong
                   /\ req[r].status = 403 /\ is_url_allowed(req[r].url)

\* the reference predicate: s ends with "." followed by suffix when it splits
\* into some prefix, a dot and the suffix
IsSubdomainOf(s, suffix) ==
    \E n \in 0..Len(s) : SubSeq(s, n + 1, Len(s)) = <<".">> \o suffix
RefAllowed(allowSet, hostname) ==
    IF allowSet = {} THEN TRUE
    ELSE IF hostname = NoHost THEN FALSE
    ELSE \E e \in allowSet :
            LET entry == lower(e)
                host == lower(hostname)
                suffix == SubSeq(entry, 3, Len(entry)) IN
            \/ entry = host
            \/ /\ Len(entry) >= 2 /\ entry[1] = "*" /\ entry[2] = "."
               /\ (host = suffix \/ IsSubdomainOf(host, suffix))

\* C18: every call of is_url_allowed returns what the reference predicate
\* gives for the allow-set and the hostname; with the allow-set {a, *.b} the
\* hosts a, a.b and bare b are accepted and e, ba and ab are rejected.
C18_UrlAllowedMatchesReference ==
    checked # << >> =>
        /\ checked[2] = RefAllowed(allowed_hosts, checked[1])
        /\ allowed_hosts = {EntA, WildB} =>
              /\ checked[1] \in {HostA, HostAB, HostB} => checked[2]
              /\ checked[1] \in {HostE, HostBa, HostXb} => ~checked[2]

\* with the allow-set {a, *.b}, the host ab (no dot before the suffix) was
\* rejected
C18_Witness ==
    /\ allowed_hosts = {EntA, WildB}
    /\ checked # << >> /\ checked[1] = HostXb /\ ~checked[2]

\* C19: a stop() that finishes on a running manager, by returning or because
\* browser.close() raised, leaves the lock released, the driver stopped, the
\* handle cleared and is_ready() false.
C19_StopAlwaysCleansUp ==
    [][\A l \in Life :
          (\/ lpc[l] = "stop_close" /\ lpc'[l] = "idle"
           \/ lpc[l] = "stop_driver" /\ lpc'[l] = "idle" /\ lastDone' = "stop_ok")
          => (start_lock' = None /\ playwright' = None /\ browser' = None)]_vars

\* C20: a request that arrives while stop() is suspended in browser.close()
\* does not reach the creation of a context (browser.new_context()).
C20_NoContextWhileStopping ==
    [][\A r \in Req :
          (lpc[App] = "stop_close" /\ req[r].pc \in {"idle", "done"})
          => req'[r].pc # "new_context"]_vars

====
